---------------------------- MODULE Spec2Model ----------------------------
(***************************************************************************)
(* A model of sweetagent's completion gateway (LLMClient.complete,         *)
(* src/src/sweetagent/llm_client.py) and of the reply decoders of its      *)
(* prompt engines (src/src/sweetagent/prompt.py).                          *)
(*                                                                         *)
(* Text is a sequence of one-character strings, so that str.strip,         *)
(* str.lower, str.split, str.splitlines and the regular expressions are    *)
(* computed on characters.  An Optional value is a sequence of length at   *)
(* most one: <<>> is None and <<v>> is the value v.  A dict is a function   *)
(* whose DOMAIN is its key set.                                            *)
(***************************************************************************)
EXTENDS Integers, Sequences, FiniteSets, TLC

VARIABLES
    \* ---- one LLMClient instance (llm_client.py:15-33)
    nkeys,                    \* len(api_keys_rotator): the number of credentials
    cursor,                   \* api_keys_rotator's cursor, 0 .. nkeys-1
    provider,                 \* self.provider
    base_url,                 \* self.base_url (Optional)
    self_completion_kwargs,   \* self.completion_kwargs (a dict, or None as <<>>)
    \* ---- the frame of each caller's complete() call (llm_client.py:35-98)
    pc,                       \* where the caller is in complete()
    messages,                 \* the messages argument
    completion_kwargs,        \* the **completion_kwargs argument
    completion_kwargs_to_use, \* the local dict of the same name
    provider_to_use,          \* the local of the same name
    max_iter,                 \* range(self.api_keys_rotator.max_iter), read once
    i,                        \* the loop index of the retry loop
    last_error,               \* Optional: the last RateLimitError caught
    attempts,                 \* history: the transport calls this call issued
    resp,                     \* the transport's ModelResponse
    ret,                      \* how the call ended: a returned message or a raise
    log,                      \* what this call wrote to the logging sink
    entry_cursor,             \* history: the cursor when the call was entered
    prev,                     \* history: how the last finished call ended
    ncalls,                   \* calls started so far (bounded by MaxCalls)
    overlap,                  \* history: another call was running during this one
    \* ---- a prompt engine and one decode call (prompt.py)
    engine,                   \* which engine class decodes
    agent_work_mode,          \* self.agent_work_mode
    end_state_name,           \* self.end_state.name (FSMPromptEngine)
    reply,                    \* history: the reply as the model composed it
    text_response,            \* the text_response argument
    result,                   \* how extract_formatted_llm_response ended
    \* ---- one BaseState object and its renderings (prompt.py)
    state_class,              \* the BaseState subclass the object is made from
    state_pc,                 \* "none" before construction, then "constructed"
    self_entry,               \* self.entry
    self_do,                  \* self.do
    self_exit,                \* self._exit
    self_transitions,         \* self.transitions
    to_string_res,            \* Optional: what to_string() returned last
    system_message            \* Optional: the diagram of get_system_message()

clientVars == <<nkeys, cursor, provider, base_url, self_completion_kwargs,
                pc, messages, completion_kwargs, completion_kwargs_to_use,
                provider_to_use,
                max_iter, i, last_error, attempts, resp, ret, log,
                entry_cursor, prev, ncalls, overlap>>
decodeVars == <<engine, agent_work_mode, end_state_name, reply, text_response,
                result>>
stateVars == <<state_class, state_pc, self_entry, self_do, self_exit,
               self_transitions, to_string_res, system_message>>
vars == <<clientVars, decodeVars, stateVars>>

---------------------------------------------------------------------------
(* Bounds of the model.                                                    *)
MaxKeys == 3        \* credential sets of 1 .. MaxKeys keys
MaxCalls == 2       \* complete() calls per behaviour
MaxPieces == 3      \* pieces a model content is assembled from
MaxTextPieces == 5  \* pieces a free-form reply text is assembled from
MaxTransitions == 2 \* add_transition calls on one state

Callers == {"c1", "c2"}

---------------------------------------------------------------------------
(* Python values.                                                          *)
None == <<>>
Some(v) == <<v>>
IsNone(o) == o = <<>>
Val(o) == o[1]

EmptyDict == [k \in {} |-> None]
\* dict.get(k): the value, or None when the key is absent
DictGet(d, k) == IF k \in DOMAIN d THEN d[k] ELSE None
\* dict.pop(k, default): the value handed back
DictPopValue(d, k, default) == IF k \in DOMAIN d THEN d[k] ELSE default
\* dict.pop(k, default): the dict left behind
DictPopRest(d, k) == [x \in (DOMAIN d) \ {k} |-> d[x]]
\* d[k] = v
DictSet(d, k, v) == [x \in (DOMAIN d) \cup {k} |-> IF x = k THEN v ELSE d[x]]
\* bool(d) of a dict
DictTruthy(d) == DOMAIN d # {}

RECURSIVE Concat(_)
\* "".join(parts)
Concat(parts) == IF parts = <<>> THEN <<>> ELSE Head(parts) \o Concat(Tail(parts))

\* every sequence over S of length 0 .. n
SeqsUpTo(S, n) == UNION {[1..k -> S] : k \in 0..n}
---------------------------------------------------------------------------
(* Python values a decoded message carries: a str, or a dict with its      *)
(* items.  items is len(value), so bool(value) is items > 0.               *)
PyStr(str) == [type |-> "str", items |-> Len(str), val |-> str]
PyDict(m) == [type |-> "dict", items |-> Cardinality(DOMAIN m), val |-> m]
\* bool(o) of an Optional value
PyTruthy(o) == ~IsNone(o) /\ Val(o).items > 0

\* sweetagent.core.ToolCall and LLMChatMessage: plain records
ToolCall(name, type, arguments) ==
    [name |-> name, type |-> type, arguments |-> arguments]
LLMChatMessage(role, content, data, tool_calls, kind) ==
    [role |-> role, content |-> content, data |-> data,
     tool_calls |-> tool_calls, kind |-> kind]
NoMessage == LLMChatMessage("", None, None, None, <<>>)

\* how a decode call ended
NoResult == [status |-> "idle", message |-> NoMessage]
ReturnMessage(m) == [status |-> "message", message |-> m]
\* raise RetryToFix("For kind == final_answer there must be ...")
RaiseRetryToFix == [status |-> "RetryToFix", message |-> NoMessage]
\* yaml.safe_load raised
RaiseYAMLError == [status |-> "YAMLError", message |-> NoMessage]

---------------------------------------------------------------------------
(* sweetagent.core.RotatingList, as the gateway uses it: a cyclic cursor   *)
(* over the credentials.  A credential is named by its position.          *)
RotatingList_current(cur) == cur
RotatingList_next(cur, n) == (cur + 1) % n
RotatingList_max_iter(n) == n

---------------------------------------------------------------------------
(* LLMClient.complete: inputs.                                             *)

\* the **completion_kwargs of a call
PerCallKwargs ==
    { EmptyDict,
      [temperature |-> Some(2)],
      [temperature |-> None],
      [max_tokens |-> Some(5)],
      [temperature |-> Some(2), response_format |-> Some("call_schema")] }

\* the completion_kwargs the gateway was constructed with
GatewayKwargs ==
    { None,
      Some([temperature |-> Some(1)]),
      Some([temperature |-> Some(1), response_format |-> Some("gateway_schema")]) }

\* a message dict: its role and its "response_format" entry (None: no entry).
\* "BaseModel" is a pydantic model class, "dict" a JSON schema dict.
Msg(role, fmt) == [role |-> role, response_format |-> fmt]
MessageLists ==
    { << Msg("system", None) >>,
      << Msg("system", None), Msg("user", None) >>,
      << Msg("user", Some("dict")), Msg("assistant", None) >>,
      << Msg("user", Some("dict")), Msg("user", None) >>,
      << Msg("system", None), Msg("user", Some("BaseModel")) >> }

\* the provider and base_url the gateway was constructed with
Endpoints == { <<"azure", None>>, <<"openai", Some("https://endpoint")>> }

\* the text the model may answer with
THINK_CLOSE == <<"<", "/", "t", "h", "i", "n", "k", ">">>
ModelContents == { Concat(ps) : ps \in SeqsUpTo({ <<"a">>, THINK_CLOSE }, MaxPieces) }
\* a ModelResponse: well_formed is whether from_model_response can read it
Responses ==
    { [well_formed |-> TRUE, content |-> Some(c)] : c \in ModelContents }
    \cup { [well_formed |-> TRUE, content |-> None],
           [well_formed |-> FALSE, content |-> None] }
NoResponse == [well_formed |-> FALSE, content |-> None]

\* an exception: its type and the transport attempt that raised it (0: none)
Exc(type, attempt) == [type |-> type, attempt |-> attempt]
NoRet == [kind |-> "none", exc |-> Exc("", 0), content |-> None]
Returned(content) == [kind |-> "return", exc |-> Exc("", 0), content |-> content]
Raised(e) == [kind |-> "raise", exc |-> e, content |-> None]

---------------------------------------------------------------------------
(* LLMClient.complete: helpers.                                            *)

RECURSIVE FindLastUser(_, _)
\* find_user_last_message_format: the newest user message's response_format
FindLastUser(msgs, k) ==
    IF k = 0 THEN None
    ELSE IF msgs[k].role = "user" THEN msgs[k].response_format
    ELSE FindLastUser(msgs, k - 1)
find_user_last_message_format(msgs) == FindLastUser(msgs, Len(msgs))

\* json.dumps(messages, indent=4) raises TypeError on a value that is not
\* JSON-serializable, such as a pydantic model class
JsonDumpsRaises(msgs) ==
    \E k \in 1..Len(msgs) : msgs[k].response_format = Some("BaseModel")

\* lines 38-43: which option dict the call works on
ChooseKwargs(kw, selfkw) ==
    IF DictTruthy(kw) THEN kw
    ELSE IF ~IsNone(selfkw) /\ DictTruthy(Val(selfkw)) THEN Val(selfkw)
    ELSE EmptyDict

\* lines 56-57: the fallback temperature
DefaultTemperature(kw) ==
    IF IsNone(DictGet(kw, "temperature"))
    THEN DictSet(kw, "temperature", Some(0))
    ELSE kw

\* a loop that gives up one iteration early
RangeDone_OneShort(idx, n) == idx + 1 >= n

\* a retry loop that makes one attempt more
RangeDone_OneMore(idx, n) == idx >= n + 1

\* line 61: whether range(max_iter) is exhausted after idx iterations
RangeDone(idx, n) == idx >= n

\* a handler that forgets to rotate
CursorOnRateLimit_Stuck(cur, n) == cur

\* lines 77-79: the cursor after a RateLimitError
CursorOnRateLimit(cur, n) == RotatingList_next(cur, n)

RECURSIVE FindFrom(_, _, _)
\* str.find: the first position >= k where sep occurs in s, or 0
FindFrom(s, sep, k) ==
    IF k + Len(sep) - 1 > Len(s) THEN 0
    ELSE IF SubSeq(s, k, k + Len(sep) - 1) = sep THEN k
    ELSE FindFrom(s, sep, k + 1)

\* s.split(sep, maxsplit=1)
SplitOnce(s, sep) ==
    LET k == FindFrom(s, sep, 1)
    IN IF k = 0 THEN <<s>>
       ELSE <<SubSeq(s, 1, k - 1), SubSeq(s, k + Len(sep), Len(s))>>

\* a normalization that keeps the reasoning preamble instead of the answer
StripThink_KeepsPreamble(content) ==
    IF IsNone(content) \/ Val(content) = <<>> THEN content
    ELSE Some(SplitOnce(Val(content), THINK_CLOSE)[1])

\* lines 86-93: the content after the reasoning preamble is dropped
StripThink(content) ==
    IF IsNone(content) \/ Val(content) = <<>> THEN content
    ELSE LET parts == SplitOnce(Val(content), THINK_CLOSE)
         IN IF Len(parts) = 1 THEN Some(parts[1]) ELSE Some(parts[2])

\* LLMChatMessage.from_model_response: the message carries the model's content
from_model_response(r) == r.content
---------------------------------------------------------------------------
(* LLMClient.complete: the state machine.  The transport call is the only  *)
(* point where a call waits, so a call is four steps: Call (lines 38-61),  *)
(* Send (the evaluation of completion()'s arguments, lines 63-75), the     *)
(* transport's answer (lines 76-81 and 96-98) and Post (lines 83-98).      *)

Attempt(key, temperature, response_format, model, rest) ==
    [api_key |-> key, temperature |-> temperature,
     response_format |-> response_format, model |-> model,
     extra |-> rest, outcome |-> "pending"]

\* the except clause of lines 96-98: log_error, then re-raise
LogError(c) == log' = [log EXCEPT ![c] = Append(@, "error")]

\* the caller is inside complete(): entered, and neither returned nor raised
Running(c) == pc[c] \in {"attempt", "waiting", "post"}

\* lines 38-61: the call up to the first transport call
Enter(c, kw, msgs) ==
    /\ pc[c] = "idle"
    /\ overlap' = IF \E d \in Callers : Running(d)
                  THEN [d \in Callers |-> d = c \/ Running(d) \/ overlap[d]]
                  ELSE [overlap EXCEPT ![c] = FALSE]
    /\ ncalls < MaxCalls
    /\ ncalls' = ncalls + 1
    /\ LET azure == provider = "azure" /\ IsNone(base_url)
           warned == IF azure THEN <<"warning">> ELSE <<>>
       IN /\ provider_to_use' =
                [provider_to_use EXCEPT ![c] = IF azure THEN "openai" ELSE provider]
          /\ messages' = [messages EXCEPT ![c] = msgs]
          /\ completion_kwargs' = [completion_kwargs EXCEPT ![c] = kw]
          /\ entry_cursor' = [entry_cursor EXCEPT ![c] = cursor]
          /\ attempts' = [attempts EXCEPT ![c] = <<>>]
          /\ last_error' = [last_error EXCEPT ![c] = None]
          /\ resp' = [resp EXCEPT ![c] = NoResponse]
          /\ i' = [i EXCEPT ![c] = 0]
          /\ IF JsonDumpsRaises(msgs)
             THEN \* line 54 raises before the try block of line 60 is entered
                  /\ log' = [log EXCEPT ![c] = warned]
                  /\ completion_kwargs_to_use' =
                        [completion_kwargs_to_use EXCEPT
                            ![c] = ChooseKwargs(kw, self_completion_kwargs)]
                  /\ max_iter' = [max_iter EXCEPT ![c] = 0]
                  /\ ret' = [ret EXCEPT ![c] = Raised(Exc("TypeError", 0))]
                  /\ pc' = [pc EXCEPT ![c] = "raised"]
             ELSE /\ log' = [log EXCEPT ![c] = Append(warned, "debug")]
                  /\ completion_kwargs_to_use' =
                        [completion_kwargs_to_use EXCEPT
                            ![c] = DefaultTemperature(
                                       ChooseKwargs(kw, self_completion_kwargs))]
                  /\ max_iter' = [max_iter EXCEPT ![c] = RotatingList_max_iter(nkeys)]
                  /\ ret' = [ret EXCEPT ![c] = NoRet]
                  /\ pc' = [pc EXCEPT ![c] = "attempt"]
    /\ UNCHANGED <<nkeys, cursor, provider, base_url, self_completion_kwargs, prev>>
    /\ UNCHANGED <<decodeVars, stateVars>>

\* the callers take turns: complete() is entered when no call is running
Call(c, kw, msgs) ==
    /\ \A d \in Callers : pc[d] = "idle"
    /\ Enter(c, kw, msgs)

\* lines 63-75: completion()'s arguments are evaluated and the request leaves
Send(c) ==
    /\ pc[c] = "attempt"
    /\ LET kw == completion_kwargs_to_use[c]
           temperature == DictPopValue(kw, "temperature", Some(0))
           kw1 == DictPopRest(kw, "temperature")
           response_format ==
               DictPopValue(kw1, "response_format",
                            find_user_last_message_format(messages[c]))
           kw2 == DictPopRest(kw1, "response_format")
       IN /\ attempts' = [attempts EXCEPT ![c] =
                 Append(@, Attempt(RotatingList_current(cursor), temperature,
                                   response_format, provider_to_use[c], kw2))]
          /\ completion_kwargs_to_use' = [completion_kwargs_to_use EXCEPT ![c] = kw2]
    /\ pc' = [pc EXCEPT ![c] = "waiting"]
    /\ UNCHANGED <<overlap, nkeys, cursor, provider, base_url, self_completion_kwargs,
                   messages, completion_kwargs, provider_to_use, max_iter, i, last_error, resp, ret,
                   log, entry_cursor, prev, ncalls>>
    /\ UNCHANGED <<decodeVars, stateVars>>

SetOutcome(c, o) ==
    attempts' = [attempts EXCEPT ![c][Len(attempts[c])].outcome = o]

\* line 76: the transport answered; break
TransportOk(c, r) ==
    /\ pc[c] = "waiting"
    /\ SetOutcome(c, "ok")
    /\ resp' = [resp EXCEPT ![c] = r]
    /\ pc' = [pc EXCEPT ![c] = "post"]
    /\ UNCHANGED <<overlap, nkeys, cursor, provider, base_url, self_completion_kwargs,
                   messages, completion_kwargs, completion_kwargs_to_use, provider_to_use, max_iter,
                   i, last_error, ret, log, entry_cursor, prev, ncalls>>
    /\ UNCHANGED <<decodeVars, stateVars>>

\* lines 77-81: RateLimitError; rotate, and retry or give up (the for's else)
TransportRateLimit(c) ==
    /\ pc[c] = "waiting"
    /\ SetOutcome(c, "RateLimitError")
    /\ LET e == Exc("RateLimitError", Len(attempts[c]))
       IN /\ last_error' = [last_error EXCEPT ![c] = Some(e)]
          /\ cursor' = CursorOnRateLimit(cursor, nkeys)
          /\ i' = [i EXCEPT ![c] = @ + 1]
          /\ IF RangeDone(i[c] + 1, max_iter[c])
             THEN /\ ret' = [ret EXCEPT ![c] = Raised(e)]
                  /\ LogError(c)
                  /\ pc' = [pc EXCEPT ![c] = "raised"]
             ELSE /\ UNCHANGED <<ret, log>>
                  /\ pc' = [pc EXCEPT ![c] = "attempt"]
    /\ UNCHANGED <<overlap, nkeys, provider, base_url, self_completion_kwargs, messages,
                   completion_kwargs,
                   completion_kwargs_to_use, provider_to_use, max_iter, resp,
                   entry_cursor, prev, ncalls>>
    /\ UNCHANGED <<decodeVars, stateVars>>

\* a handler that rotates on every exception
CursorOnOtherError_Rotates(cur, n) == RotatingList_next(cur, n)

\* lines 96-98: the handler of the other exceptions does not touch the rotator
CursorOnOtherError(cur, n) == cur

\* lines 96-98: any other exception of the transport leaves the loop
TransportError(c) ==
    /\ pc[c] = "waiting"
    /\ SetOutcome(c, "OtherError")
    /\ ret' = [ret EXCEPT ![c] = Raised(Exc("OtherError", Len(attempts[c])))]
    /\ LogError(c)
    /\ pc' = [pc EXCEPT ![c] = "raised"]
    /\ cursor' = CursorOnOtherError(cursor, nkeys)
    /\ UNCHANGED <<overlap, nkeys, provider, base_url, self_completion_kwargs,
                   messages, completion_kwargs, completion_kwargs_to_use, provider_to_use, max_iter,
                   i, last_error, resp, entry_cursor, prev, ncalls>>
    /\ UNCHANGED <<decodeVars, stateVars>>

\* lines 83-98: the message is built, logged, normalized and returned
Post(c) ==
    /\ pc[c] = "post"
    /\ IF ~resp[c].well_formed
       THEN /\ ret' = [ret EXCEPT ![c] = Raised(Exc("ResponseError", 0))]
            /\ LogError(c)
            /\ pc' = [pc EXCEPT ![c] = "raised"]
       ELSE /\ ret' = [ret EXCEPT ![c] =
                          Returned(StripThink(from_model_response(resp[c])))]
            /\ log' = [log EXCEPT ![c] = Append(@, "debug")]
            /\ pc' = [pc EXCEPT ![c] = "returned"]
    /\ UNCHANGED <<overlap, nkeys, cursor, provider, base_url, self_completion_kwargs,
                   messages, completion_kwargs, completion_kwargs_to_use, provider_to_use, max_iter,
                   i, last_error, attempts, resp, entry_cursor, prev, ncalls>>
    /\ UNCHANGED <<decodeVars, stateVars>>

\* the caller has the result; the frame is gone, the gateway stays
Finish(c) ==
    /\ pc[c] \in {"returned", "raised"}
    /\ prev' = [ok |-> ret[c].kind = "return",
                api_key |-> IF attempts[c] = <<>> THEN None
                            ELSE Some(attempts[c][Len(attempts[c])].api_key)]
    /\ pc' = [pc EXCEPT ![c] = "idle"]
    /\ messages' = [messages EXCEPT ![c] = <<>>]
    /\ completion_kwargs' = [completion_kwargs EXCEPT ![c] = EmptyDict]
    /\ completion_kwargs_to_use' = [completion_kwargs_to_use EXCEPT ![c] = EmptyDict]
    /\ provider_to_use' = [provider_to_use EXCEPT ![c] = ""]
    /\ max_iter' = [max_iter EXCEPT ![c] = 0]
    /\ i' = [i EXCEPT ![c] = 0]
    /\ last_error' = [last_error EXCEPT ![c] = None]
    /\ attempts' = [attempts EXCEPT ![c] = <<>>]
    /\ resp' = [resp EXCEPT ![c] = NoResponse]
    /\ ret' = [ret EXCEPT ![c] = NoRet]
    /\ log' = [log EXCEPT ![c] = <<>>]
    /\ entry_cursor' = [entry_cursor EXCEPT ![c] = 0]
    /\ overlap' = [overlap EXCEPT ![c] = FALSE]
    /\ UNCHANGED <<nkeys, cursor, provider, base_url, self_completion_kwargs,
                   ncalls>>
    /\ UNCHANGED <<decodeVars, stateVars>>

\* no decode call is in progress
DecodeIdle ==
    /\ engine = "none"
    /\ agent_work_mode = "TASK"
    /\ end_state_name = <<>>
    /\ reply = <<>>
    /\ text_response = <<>>
    /\ result = NoResult

\* a BaseState subclass: its name and the class-level defaults it declares
StateClass(name, default_entry, default_do, default_exit, default_transitions) ==
    [name |-> name, default_entry |-> default_entry, default_do |-> default_do,
     default_exit |-> default_exit, default_transitions |-> default_transitions]

\* no BaseState object exists
NoState ==
    /\ state_class = StateClass(<<>>, None, None, None, <<>>)
    /\ state_pc = "none"
    /\ self_entry = None
    /\ self_do = None
    /\ self_exit = None
    /\ self_transitions = <<>>
    /\ to_string_res = None
    /\ system_message = None

\* no complete() call is in progress
NoCall ==
    /\ pc = [c \in Callers |-> "idle"]
    /\ messages = [c \in Callers |-> <<>>]
    /\ completion_kwargs = [c \in Callers |-> EmptyDict]
    /\ completion_kwargs_to_use = [c \in Callers |-> EmptyDict]
    /\ provider_to_use = [c \in Callers |-> ""]
    /\ max_iter = [c \in Callers |-> 0]
    /\ i = [c \in Callers |-> 0]
    /\ last_error = [c \in Callers |-> None]
    /\ attempts = [c \in Callers |-> <<>>]
    /\ resp = [c \in Callers |-> NoResponse]
    /\ ret = [c \in Callers |-> NoRet]
    /\ log = [c \in Callers |-> <<>>]
    /\ entry_cursor = [c \in Callers |-> 0]
    /\ prev = [ok |-> FALSE, api_key |-> None]
    /\ ncalls = 0
    /\ overlap = [c \in Callers |-> FALSE]

\* a gateway as LLMClient.__init__ leaves it, and no call in progress
Init ==
    /\ nkeys \in 1..MaxKeys
    /\ cursor = 0
    /\ \E e \in Endpoints : provider = e[1] /\ base_url = e[2]
    /\ self_completion_kwargs \in GatewayKwargs
    /\ NoCall
    /\ DecodeIdle
    /\ NoState

\* complete() is called by one caller at a time
Next ==
    \E c \in {"c1"} :
        \/ \E kw \in PerCallKwargs, msgs \in MessageLists : Call(c, kw, msgs)
        \/ Send(c)
        \/ \E r \in Responses : TransportOk(c, r)
        \/ TransportRateLimit(c)
        \/ TransportError(c)
        \/ Post(c)
        \/ Finish(c)

Spec == Init /\ [][Next]_vars

---------------------------------------------------------------------------
(* Two callers share the gateway and do not take turns: complete() holds   *)
(* no lock, so a caller may enter while another call is running.  The      *)
(* calls interleave at the transport call (llm_client.py:63-75), the one   *)
(* point where a call waits: a caller runs while the other is idle, done   *)
(* or waiting for the transport.                                           *)

InitConc ==
    /\ nkeys \in 1..MaxKeys
    /\ cursor = 0
    /\ provider = "openai"
    /\ base_url = None
    /\ self_completion_kwargs = None
    /\ NoCall
    /\ DecodeIdle
    /\ NoState

\* the other callers are not between two transport calls
OthersSuspended(c) ==
    \A d \in Callers \ {c} : pc[d] \notin {"attempt", "post"}

\* the steps of complete(), taken while the other caller is suspended
ConcEnter(c) ==
    /\ OthersSuspended(c)
    /\ Enter(c, EmptyDict, <<Msg("user", None)>>)
ConcSend(c) == OthersSuspended(c) /\ Send(c)
ConcTransportOk(c) ==
    /\ OthersSuspended(c)
    /\ TransportOk(c, [well_formed |-> TRUE, content |-> Some(<<"a">>)])
ConcTransportRateLimit(c) == OthersSuspended(c) /\ TransportRateLimit(c)
ConcTransportError(c) == OthersSuspended(c) /\ TransportError(c)
ConcPost(c) == OthersSuspended(c) /\ Post(c)
ConcFinish(c) == OthersSuspended(c) /\ Finish(c)

NextConc ==
    \E c \in Callers :
        \/ ConcEnter(c)
        \/ ConcSend(c)
        \/ ConcTransportOk(c)
        \/ ConcTransportRateLimit(c)
        \/ ConcTransportError(c)
        \/ ConcPost(c)
        \/ ConcFinish(c)

SpecConc == InitConc /\ [][NextConc]_vars
---------------------------------------------------------------------------
(* Characters and the str methods the decoders use.                        *)

LowerCase == <<"a", "b", "c", "d", "e", "f", "g", "h", "i", "j", "k", "l", "m", "n", "o", "p", "q", "r", "s", "t", "u", "v", "w", "x", "y", "z">>
UpperCase == <<"A", "B", "C", "D", "E", "F", "G", "H", "I", "J", "K", "L", "M", "N", "O", "P", "Q", "R", "S", "T", "U", "V", "W", "X", "Y", "Z">>
\* \s of the regular expressions, and what str.strip removes
Space == {" ", "\n", "\t"}
\* \w of the regular expressions
WordChars == {LowerCase[k] : k \in 1..Len(LowerCase)}
             \cup {UpperCase[k] : k \in 1..Len(UpperCase)} \cup {"0", "1", "2", "3", "4", "5", "6", "7", "8", "9"} \cup {"_"}

LowerChar(ch) ==
    IF \E k \in 1..Len(UpperCase) : UpperCase[k] = ch
    THEN LowerCase[CHOOSE k \in 1..Len(UpperCase) : UpperCase[k] = ch]
    ELSE ch
\* str.lower
StrLower(s) == [k \in 1..Len(s) |-> LowerChar(s[k])]

\* str.strip
StrStrip(s) ==
    LET keep == {k \in 1..Len(s) : s[k] \notin Space}
    IN IF keep = {} THEN <<>>
       ELSE LET lo == CHOOSE k \in keep : \A h \in keep : k <= h
                hi == CHOOSE k \in keep : \A h \in keep : k >= h
            IN SubSeq(s, lo, hi)

RECURSIVE SplitLines(_)
\* str.splitlines(keepends=True)
SplitLines(s) ==
    IF s = <<>> THEN <<>>
    ELSE LET nl == {k \in 1..Len(s) : s[k] = "\n"}
         IN IF nl = {} THEN <<s>>
            ELSE LET k == CHOOSE k \in nl : \A h \in nl : k <= h
                 IN <<SubSeq(s, 1, k)>> \o SplitLines(SubSeq(s, k + 1, Len(s)))

RECURSIVE RunEnd(_, _, _)
\* the first position >= k of line whose character is not in S (Len+1: none)
RunEnd(line, k, S) ==
    IF k > Len(line) \/ line[k] \notin S THEN k ELSE RunEnd(line, k + 1, S)

\* a match of  d+\s*(\w+)\s*d+  that starts at position k: its group 1
HeaderAt(line, d, k) ==
    LET p == RunEnd(line, k, {d})
        q == RunEnd(line, p, Space)
        r == RunEnd(line, q, WordChars)
        t == RunEnd(line, r, Space)
    IN IF line[k] = d /\ r > q /\ t <= Len(line) /\ line[t] = d
       THEN Some(SubSeq(line, q, r - 1))
       ELSE None

\* re.compile(r"d+\s*(\w+)\s*d+").search(line): group 1 of the leftmost match
HeaderSearch(line, d) ==
    LET ks == {k \in 1..Len(line) : ~IsNone(HeaderAt(line, d, k))}
    IN IF ks = {} THEN None
       ELSE HeaderAt(line, d, CHOOSE k \in ks : \A h \in ks : k <= h)

\* rgx_section and rgx_tool_arguments_field (prompt.py:85-86)
rgx_section(line) == HeaderSearch(line, "+")
rgx_tool_arguments_field(line) == HeaderSearch(line, "~")

RECURSIVE RegexSplit(_, _, _)
\* re.compile(r"d+").split(s): cur is the part being read
RegexSplit(s, d, cur) ==
    IF s = <<>> THEN <<cur>>
    ELSE IF Head(s) = d
         THEN <<cur>> \o RegexSplit(SubSeq(s, RunEnd(s, 1, {d}), Len(s)), d, <<>>)
         ELSE RegexSplit(Tail(s), d, Append(cur, Head(s)))
\* rgx_plus.split (prompt.py:492, 542)
rgx_plus_split(s) == RegexSplit(s, "+", <<>>)

\* the literals of prompt.py
S_kind == <<"k", "i", "n", "d">>
S_message == <<"m", "e", "s", "s", "a", "g", "e">>
S_data == <<"d", "a", "t", "a">>
S_tool_name == <<"t", "o", "o", "l", "_", "n", "a", "m", "e">>
S_tool_arguments == <<"t", "o", "o", "l", "_", "a", "r", "g", "u", "m", "e", "n", "t", "s">>
S_end == <<"e", "n", "d">>
S_final_answer == <<"f", "i", "n", "a", "l", "_", "a", "n", "s", "w", "e", "r">>
S_tool_call == <<"t", "o", "o", "l", "_", "c", "a", "l", "l">>

\* bool(s) of an Optional str
StrTruthy(o) == ~IsNone(o) /\ Val(o) # <<>>

---------------------------------------------------------------------------
(* PromptEngine.extract_formatted_llm_response (prompt.py:274-374).        *)

Y_mapping == <<"x", ":", " ", "1">>
Y_empty_mapping == <<"{", "}">>
Y_malformed == <<"[">>
\* yaml.safe_load on the data bodies of the model: a mapping with one key,
\* an empty mapping, a document that does not parse; a plain scalar otherwise
YamlSafeLoad(str) ==
    CASE str = Y_mapping -> [raises |-> FALSE, value |-> PyDict([x |-> 1])]
      [] str = Y_empty_mapping -> [raises |-> FALSE, value |-> PyDict(EmptyDict)]
      [] str = Y_malformed -> [raises |-> TRUE, value |-> PyStr(<<>>)]
      [] OTHER -> [raises |-> FALSE, value |-> PyStr(str)]
\* _decode_data_section
decode_data_section(data_content) == YamlSafeLoad(data_content)

\* the locals of the scanning loops: the open section (or field), its
\* StringIO, the dict filled so far, and whether the loop was left by break
ScanState(current, builder, filled, done) ==
    [current |-> current, string_builder |-> builder, filled |-> filled,
     done |-> done]
ScanStart == ScanState(None, None, EmptyDict, FALSE)

\* lines 284-286 and 360-362: the open section's trimmed body is stored
Flush(st) ==
    IF ~IsNone(st.current)
    THEN DictSet(st.filled, Val(st.current), Some(StrStrip(Val(st.string_builder))))
    ELSE st.filled

\* lines 281-297: one line of the section scan
SectionStep(st, line) ==
    LET r == rgx_section(line)
    IN IF ~IsNone(r)
       THEN LET section_name == StrLower(Val(r))
            IN IF section_name = S_end
               THEN ScanState(st.current, None, Flush(st), TRUE)
               ELSE ScanState(Some(section_name), Some(<<>>), Flush(st), FALSE)
       ELSE IF ~IsNone(st.string_builder)
            THEN [st EXCEPT !.string_builder = Some(Val(@) \o line)]
            ELSE st

RECURSIVE ScanSections(_, _, _)
\* lines 280-297: the loop over the lines, left at the "end" header
ScanSections(lines, k, st) ==
    IF k > Len(lines) \/ st.done THEN st
    ELSE ScanSections(lines, k + 1, SectionStep(st, lines[k]))

\* the field name a tool-argument header is stored under
FieldKey(name) == StrLower(name)

\* lines 357-368: one line of the tool-argument scan
FieldStep(st, line) ==
    LET r == rgx_tool_arguments_field(line)
    IN IF ~IsNone(r)
       THEN ScanState(Some(FieldKey(Val(r))), Some(<<>>), Flush(st), FALSE)
       ELSE IF ~IsNone(st.string_builder)
            THEN [st EXCEPT !.string_builder = Some(Val(@) \o line)]
            ELSE st

RECURSIVE ScanFields(_, _, _)
ScanFields(lines, k, st) ==
    IF k > Len(lines) THEN st
    ELSE ScanFields(lines, k + 1, FieldStep(st, lines[k]))

\* _decode_tool_arguments_section: the last open field is stored at the end
\* of the text (lines 370-372); the values are str
decode_tool_arguments_section(tool_arguments_content) ==
    LET st == ScanFields(SplitLines(tool_arguments_content), 1, ScanStart)
        fields == IF ~IsNone(st.string_builder) THEN Flush(st) ELSE st.filled
    IN [f \in DOMAIN fields |-> Val(fields[f])]

\* a value left unnormalized
NoneIfFalsy_Forgotten(o) == o

\* lines 307-314: if not sections.get(name): sections[name] = None
NoneIfFalsy(o) == IF PyTruthy(o) THEN o ELSE None

\* what sections[name] holds after lines 299-305: the decoded value of a
\* non-empty body, the empty str of an empty one, nothing for no section
Decoded(body, value) ==
    IF StrTruthy(body) THEN Some(value)
    ELSE IF IsNone(body) THEN None ELSE Some(PyStr(Val(body)))

\* a default kind that ignores the work mode
ResolveKind_DefaultFinalAnswer(kind_section, work_mode) ==
    StrLower(IF StrTruthy(kind_section) THEN Val(kind_section) ELSE S_final_answer)

\* lines 327-330
ResolveKind(kind_section, work_mode) ==
    StrLower(IF StrTruthy(kind_section) THEN Val(kind_section)
             ELSE IF work_mode = "CHAT" THEN S_message ELSE S_final_answer)

\* lines 340-345
Validate(res) ==
    IF res.kind = S_final_answer /\ ~(StrTruthy(res.content) \/ PyTruthy(res.data))
    THEN RaiseRetryToFix
    ELSE ReturnMessage(res)

PromptEngine_extract_formatted_llm_response(text, work_mode) ==
    LET lines == SplitLines(text)
        sections == ScanSections(lines, 1, ScanStart).filled
        data_body == DictGet(sections, S_data)
        args_body == DictGet(sections, S_tool_arguments)
        name_body == DictGet(sections, S_tool_name)
        yaml == IF StrTruthy(data_body) THEN decode_data_section(Val(data_body))
                ELSE [raises |-> FALSE, value |-> PyStr(<<>>)]
        data == NoneIfFalsy(Decoded(data_body, yaml.value))
        tool_name == NoneIfFalsy(Decoded(name_body, PyStr(Val(name_body))))
        tool_arguments ==
            NoneIfFalsy(Decoded(args_body,
                PyDict(decode_tool_arguments_section(Val(args_body)))))
        tool_call ==
            IF PyTruthy(tool_name)
            THEN Some(ToolCall(Val(tool_name).val, "function",
                               IF IsNone(tool_arguments) THEN None
                               ELSE Some(Val(tool_arguments).val)))
            ELSE None
        kind == ResolveKind(DictGet(sections, S_kind), work_mode)
        res == LLMChatMessage("assistant", DictGet(sections, S_message), data,
                              IF ~IsNone(tool_call) THEN Some(<<Val(tool_call)>>)
                              ELSE None,
                              kind)
    IN IF yaml.raises THEN RaiseYAMLError ELSE Validate(res)

---------------------------------------------------------------------------
(* SimplePromptEngine and FSMPromptEngine (prompt.py:72-77, 541-548).      *)

SimplePromptEngine_extract_formatted_llm_response(text, work_mode) ==
    ReturnMessage(LLMChatMessage("assistant", Some(text), None, None,
        IF work_mode = "CHAT" THEN S_message ELSE S_final_answer))

\* a comparison with the untrimmed final segment
FSM_current_state_Untrimmed(parts) == parts[Len(parts)]

\* line 543: current_state = parts[-1].strip()
FSM_current_state(parts) == StrStrip(parts[Len(parts)])

FSMPromptEngine_extract_formatted_llm_response(text, end_name) ==
    LET parts == rgx_plus_split(text)
        current_state == FSM_current_state(parts)
    IN ReturnMessage(LLMChatMessage("assistant", Some(StrStrip(parts[1])), None, None,
           IF end_name # current_state THEN S_message ELSE S_final_answer))

---------------------------------------------------------------------------
(* The decoders: inputs.                                                   *)

T_hello == <<"H", "e", "l", "l", "o">>
T_End == <<"E", "n", "d">>
T_Other == <<"O", "t", "h", "e", "r">>

\* "+++ name +++" and "~~~ name ~~~" with n delimiter characters on each side
Header(d, n, name) == [k \in 1..n |-> d] \o <<" ">> \o name \o <<" ">> \o [k \in 1..n |-> d]
\* a section of a reply as the response format lays it out
Section(name, body) ==
    IF IsNone(body) THEN <<>>
    ELSE Header("+", 3, name) \o <<"\n">> \o Val(body) \o <<"\n">>
RECURSIVE Fields(_, _)
\* the fields of a tool_arguments body, as in the worked example of the prompt
Fields(fs, n) ==
    IF fs = <<>> THEN <<>>
    ELSE Header("~", n, Head(fs).name) \o <<"\n">> \o Head(fs).value \o <<"\n", "\n">>
         \o Fields(Tail(fs), n)
\* a tool_arguments body: text before the first field, then the fields
ArgsBody(a) == IF IsNone(a) THEN None ELSE Some(Val(a).junk \o Fields(Val(a).fields, Val(a).tildes))

Arg(name, value) == [name |-> name, value |-> value]
Args(junk, fields, n) == Some([junk |-> junk, fields |-> fields, tildes |-> n])
A_city == Args(<<>>, <<Arg(<<"c", "i", "t", "y">>, <<"D", "o", "u", "a", "l", "a">>)>>, 4)
A_user == Args(<<>>, <<Arg(<<"u", "s", "e", "r", "n", "a", "m", "e">>, <<"j", "o", "h", "n">>),
                       Arg(<<"a", "g", "e">>, <<"3", "0">>)>>, 3)
A_camel == Args(<<>>, <<Arg(<<"u", "s", "e", "r", "N", "a", "m", "e">>, <<"j", "o", "h", "n">>)>>, 3)
A_text == Args(<<"n", "o", "n", "e">>, <<>>, 3)
A_empty == Args(<<>>, <<>>, 3)

KindBodies == { None, Some(<<>>), Some(S_final_answer), Some(S_message),
                Some(S_tool_call), Some(<<"F", "i", "n", "a", "l", "_", "A", "n", "s", "w", "e", "r">>),
                Some(<<"n", "o", "t", "e">>) }
MessageBodies == { None, Some(<<" ">>), Some(<<" ">> \o T_hello \o <<" ">>) }
DataBodies == { None, Some(<<>>), Some(Y_mapping), Some(Y_empty_mapping),
                Some(Y_malformed) }
ToolNameBodies == { None, Some(<<>>), Some(<<"g", "e", "t", "_", "w", "e", "a", "t", "h", "e", "r">>) }
ToolArgs == { None, A_empty, A_city, A_user, A_camel, A_text }

\* the replies a model composes in the response format: each section left
\* out, left empty or filled, with or without the closing "end" header
FormatReplies ==
    [kind : KindBodies, message : MessageBodies, data : DataBodies,
     tool_name : ToolNameBodies, tool_arguments : ToolArgs, end : BOOLEAN]

ReplyText(r) ==
    Section(S_kind, r.kind) \o Section(S_message, r.message)
    \o Section(S_data, r.data) \o Section(S_tool_name, r.tool_name)
    \o Section(S_tool_arguments, ArgsBody(r.tool_arguments))
    \o (IF r.end THEN Header("+", 3, S_end) ELSE <<>>)

\* free-form replies: up to MaxTextPieces pieces
FreeReplies == SeqsUpTo({ T_hello, T_End, <<"+">>, <<" ">> }, MaxTextPieces)

\* an engine as the agent configures it: class, work mode, end state's name
EngineConfigs ==
    { <<"SimplePromptEngine", "TASK", <<>> >>, <<"SimplePromptEngine", "CHAT", <<>> >>,
      <<"PromptEngine", "TASK", <<>> >>, <<"PromptEngine", "CHAT", <<>> >>,
      <<"FSMPromptEngine", "CHAT", T_End>>, <<"FSMPromptEngine", "CHAT", T_Other>> }

---------------------------------------------------------------------------
(* The decoders: the state machine.  A reply arrives, the engine decodes   *)
(* it, the caller takes the result.                                        *)

Receive(r) ==
    /\ result.status = "idle"
    /\ reply' = r
    /\ text_response' = IF engine = "PromptEngine" THEN ReplyText(r) ELSE Concat(r)
    /\ result' = [status |-> "pending", message |-> NoMessage]
    /\ UNCHANGED <<engine, agent_work_mode, end_state_name>>
    /\ UNCHANGED <<clientVars, stateVars>>

ReceiveFormat == \E r \in FormatReplies : engine = "PromptEngine" /\ Receive(r)
ReceiveFree == \E r \in FreeReplies : engine # "PromptEngine" /\ Receive(r)

Decode(res) ==
    /\ result.status = "pending"
    /\ result' = res
    /\ UNCHANGED <<engine, agent_work_mode, end_state_name, reply, text_response>>
    /\ UNCHANGED <<clientVars, stateVars>>

DecodeSimple ==
    /\ engine = "SimplePromptEngine"
    /\ Decode(SimplePromptEngine_extract_formatted_llm_response(
                  text_response, agent_work_mode))
DecodePrompt ==
    /\ engine = "PromptEngine"
    /\ Decode(PromptEngine_extract_formatted_llm_response(
                  text_response, agent_work_mode))
DecodeFSM ==
    /\ engine = "FSMPromptEngine"
    /\ Decode(FSMPromptEngine_extract_formatted_llm_response(
                  text_response, end_state_name))

Deliver ==
    /\ result.status \notin {"idle", "pending"}
    /\ reply' = <<>>
    /\ text_response' = <<>>
    /\ result' = NoResult
    /\ UNCHANGED <<engine, agent_work_mode, end_state_name>>
    /\ UNCHANGED <<clientVars, stateVars>>

InitDecode ==
    /\ nkeys = 1
    /\ cursor = 0
    /\ provider = "openai"
    /\ base_url = None
    /\ self_completion_kwargs = None
    /\ NoCall
    /\ \E e \in EngineConfigs :
          engine = e[1] /\ agent_work_mode = e[2] /\ end_state_name = e[3]
    /\ reply = <<>>
    /\ text_response = <<>>
    /\ result = NoResult
    /\ NoState

NextDecode ==
    \/ ReceiveFormat
    \/ ReceiveFree
    \/ DecodeSimple
    \/ DecodePrompt
    \/ DecodeFSM
    \/ Deliver

SpecDecode == InitDecode /\ [][NextDecode]_vars

---------------------------------------------------------------------------
(* BaseState (prompt.py:390-466) and the state diagram of                  *)
(* FSMPromptEngine.get_system_message (prompt.py:500-529).                 *)

\* a transition dict: only the keys add_transition stored
TransDict(event, condition, action, next_state) ==
    [k \in {x \in {"event", "condition", "action", "next_state"} :
                StrTruthy(CASE x = "event" -> event
                            [] x = "condition" -> condition
                            [] x = "action" -> action
                            [] x = "next_state" -> next_state)} |->
        Val(CASE k = "event" -> event
              [] k = "condition" -> condition
              [] k = "action" -> action
              [] k = "next_state" -> next_state)]
\* transition.get(key)
TransGet(transition, key) ==
    IF key \in DOMAIN transition THEN Some(transition[key]) ELSE None

\* the braced block opens when any action is set
HasActions_EntryOnly(entry, do, exit) == StrTruthy(entry)

\* line 433: if self.do or self.entry or self._exit
HasActions(entry, do, exit) == StrTruthy(do) \/ StrTruthy(entry) \/ StrTruthy(exit)

\* lines 430-443
build_decl(name, entry, do, exit) ==
    <<"s", "t", "a", "t", "e", " ">> \o name
    \o (IF HasActions(entry, do, exit)
        THEN <<" ", "{">>
             \o (IF StrTruthy(entry)
                 THEN <<"\n", " ", " ", "e", "n", "t", "r", "y", " ", "/", " ">> \o Val(entry) \o <<"(", ")">> ELSE <<>>)
             \o (IF StrTruthy(do)
                 THEN <<"\n", " ", " ", "d", "o", " ", "/", " ">> \o Val(do) \o <<"(", ")">> ELSE <<>>)
             \o (IF StrTruthy(exit)
                 THEN <<"\n", " ", " ", "e", "x", "i", "t", " ", "/", " ">> \o Val(exit) ELSE <<>>)
             \o <<"\n", "}">>
        ELSE <<>>)

\* the condition clause without its brackets
ConditionClause_Bare(condition) == condition \o <<" ">>

\* line 457: res += f"[{condition}] "
ConditionClause(condition) == <<"[">> \o condition \o <<"]", " ">>

\* lines 445-460
build_single_transition(name, transition) ==
    LET event == TransGet(transition, "event")
        condition == TransGet(transition, "condition")
        action == TransGet(transition, "action")
        next_state == TransGet(transition, "next_state")
    IN name \o <<" ">>
       \o (IF StrTruthy(next_state) THEN <<"-", "-", ">", " ">> \o Val(next_state) \o <<" ">> ELSE <<>>)
       \o (IF StrTruthy(event) THEN <<":", " ">> \o Val(event) \o <<" ">> ELSE <<>>)
       \o (IF StrTruthy(condition) THEN ConditionClause(Val(condition)) ELSE <<>>)
       \o (IF StrTruthy(action) THEN <<"/", " ">> \o Val(action) ELSE <<>>)

RECURSIVE build_multiple_transitions(_, _)
\* lines 462-466
build_multiple_transitions(name, transitions) ==
    IF transitions = <<>> THEN <<>>
    ELSE build_single_transition(name, Head(transitions)) \o <<"\n">>
         \o build_multiple_transitions(name, Tail(transitions))

\* lines 423-428
BaseState_to_string(name, entry, do, exit, transitions) ==
    LET res == build_decl(name, entry, do, exit)
        transs == build_multiple_transitions(name, transitions)
    IN IF transs # <<>> THEN res \o <<"\n", "\n">> \o transs ELSE res

\* lines 500-529, from "@startuml" to "@enduml": the engine's states are
\* the object and an end state End() without actions or transitions
get_system_message(name, entry, do, exit, transitions) ==
    LET states_as_str ==
            BaseState_to_string(name, entry, do, exit, transitions) \o <<"\n", "\n">>
            \o BaseState_to_string(T_End, None, None, None, <<>>) \o <<"\n", "\n">>
    IN <<"@", "s", "t", "a", "r", "t", "u", "m", "l", "\n", "[", "*", "]", " ", "-", "-", ">", " ">> \o name \o <<"\n", "\n">>
       \o states_as_str \o <<"\n">>
       \o T_End \o <<" ", "-", "-", ">", " ", "[", "*", "]", "\n", "@", "e", "n", "d", "u", "m", "l">>

---------------------------------------------------------------------------
(* BaseState: inputs.                                                      *)
N_Idle == <<"I", "d", "l", "e">>
N_AskName == <<"A", "s", "k", "N", "a", "m", "e">>
N_AskAge == <<"A", "s", "k", "A", "g", "e">>
N_Running == <<"R", "u", "n", "n", "i", "n", "g">>
A_on_enter == <<"o", "n", "_", "e", "n", "t", "e", "r">>
A_run == <<"r", "u", "n">>
A_cleanup == <<"c", "l", "e", "a", "n", "u", "p">>
E_start == <<"s", "t", "a", "r", "t">>
E_name_provided == <<"n", "a", "m", "e", "_", "p", "r", "o", "v", "i", "d", "e", "d">>
G_ready == <<"r", "e", "a", "d", "y">>
A_log == <<"l", "o", "g">>

\* the state classes of the tests: _IdleState, _WorkingState (default
\* actions), _AskNameState (a default transition)
IdleState == StateClass(N_Idle, None, None, None, <<>>)
WorkingState ==
    StateClass(<<"W", "o", "r", "k", "i", "n", "g">>, Some(A_on_enter), Some(A_run), Some(A_cleanup), <<>>)
AskNameState ==
    StateClass(N_AskName, None, None, None,
               <<[event |-> E_name_provided, next_state |-> N_AskAge]>>)

\* the arguments of add_transition: each field left out or given
TransitionArgs ==
    [event : {None, Some(E_start)}, condition : {None, Some(G_ready)},
     action : {None, Some(A_log)}, next_state : {None, Some(N_Running)}]
    \cup { [event |-> Some(E_name_provided), condition |-> None,
             action |-> Some(<<>>), next_state |-> Some(N_AskAge)] }

---------------------------------------------------------------------------
(* BaseState: the state machine.                                           *)

\* lines 393-403: cls(entry, do, _exit)
Construct(cls, a) ==
    /\ state_pc = "none"
    /\ state_class' = cls
    /\ state_pc' = "constructed"
    /\ self_entry' = a.entry
    /\ self_do' = a.do
    /\ self_exit' = a.exit
    /\ self_transitions' = <<>>
    /\ UNCHANGED <<to_string_res, system_message>>
    /\ UNCHANGED <<clientVars, decodeVars>>

\* a state of the plain class takes any arguments
\* (each action left out, empty or named)
ConstructWithArgs ==
    \E a \in [entry : {None, Some(<<>>), Some(A_on_enter)}, do : {None, Some(A_run)},
               exit : {None, Some(A_cleanup)}] :
        Construct(IdleState, a)
\* a state of any class, constructed with no arguments
ConstructNoArgs == \E cls \in {IdleState, WorkingState, AskNameState} : Construct(cls, [entry |-> None, do |-> None, exit |-> None])

\* lines 405-421
add_transition(t) ==
    /\ state_pc = "constructed"
    /\ Len(self_transitions) < MaxTransitions
    /\ self_transitions' =
          Append(self_transitions,
                 TransDict(t.event, t.condition, t.action, t.next_state))
    /\ to_string_res' = None
    /\ system_message' = None
    /\ UNCHANGED <<state_class, state_pc, self_entry, self_do, self_exit>>
    /\ UNCHANGED <<clientVars, decodeVars>>

AddTransition == \E t \in TransitionArgs : add_transition(t)

\* lines 423-428
to_string ==
    /\ state_pc = "constructed"
    /\ to_string_res' = Some(BaseState_to_string(state_class.name, self_entry,
                                   self_do, self_exit, self_transitions))
    /\ UNCHANGED <<state_class, state_pc, self_entry, self_do, self_exit,
                   self_transitions, system_message>>
    /\ UNCHANGED <<clientVars, decodeVars>>

\* lines 500-529: the message of an engine whose initial state is the object
GetSystemMessage ==
    /\ state_pc = "constructed"
    /\ system_message' = Some(get_system_message(state_class.name, self_entry,
                                   self_do, self_exit, self_transitions))
    /\ UNCHANGED <<state_class, state_pc, self_entry, self_do, self_exit,
                   self_transitions, to_string_res>>
    /\ UNCHANGED <<clientVars, decodeVars>>

InitState ==
    /\ nkeys = 1
    /\ cursor = 0
    /\ provider = "openai"
    /\ base_url = None
    /\ self_completion_kwargs = None
    /\ NoCall
    /\ DecodeIdle
    /\ NoState

NextState ==
    \/ ConstructWithArgs
    \/ ConstructNoArgs
    \/ AddTransition
    \/ to_string
    \/ GetSystemMessage

SpecState == InitState /\ [][NextState]_vars

---------------------------------------------------------------------------
(* Properties of BaseState, checked under SpecState.                       *)

RECURSIVE JoinWith(_, _)
\* the pieces, with sep between neighbours
JoinWith(pieces, sep) ==
    IF pieces = <<>> THEN <<>>
    ELSE IF Len(pieces) = 1 THEN pieces[1]
    ELSE pieces[1] \o sep \o JoinWith(Tail(pieces), sep)
\* a is the beginning of b
IsPrefix(a, b) == Len(a) <= Len(b) /\ \A k \in 1..Len(a) : a[k] = b[k]
\* a occurs in b
Contains(b, a) ==
    \E k \in 0..(Len(b) - Len(a)) : \A j \in 1..Len(a) : b[k + j] = a[j]
\* an action that is set: given and not the empty string
IsSet(o) == o # None /\ Val(o) # <<>>

\* the declaration as the lines the claim lists
DeclLines ==
    IF ~(IsSet(self_entry) \/ IsSet(self_do) \/ IsSet(self_exit))
    THEN << <<"s", "t", "a", "t", "e", " ">> \o state_class.name >>
    ELSE << <<"s", "t", "a", "t", "e", " ">> \o state_class.name \o <<" ", "{">> >>
         \o (IF IsSet(self_entry)
             THEN << <<" ", " ", "e", "n", "t", "r", "y", " ", "/", " ">> \o Val(self_entry) \o <<"(", ")">> >> ELSE <<>>)
         \o (IF IsSet(self_do)
             THEN << <<" ", " ", "d", "o", " ", "/", " ">> \o Val(self_do) \o <<"(", ")">> >> ELSE <<>>)
         \o (IF IsSet(self_exit)
             THEN << <<" ", " ", "e", "x", "i", "t", " ", "/", " ">> \o Val(self_exit) >> ELSE <<>>)
         \o << <<"}">> >>
ExpectedDecl == JoinWith(DeclLines, <<"\n">>)

\* C11: to_string of a state without actions and transitions is exactly
\* 'state <name>'; with an action set, the declaration is 'state <name> {',
\* one line per non-empty action in the order entry, do, exit
\* ('  entry / <entry>()', '  do / <do>()', '  exit / <exit>'), then '}'.
C11_StateDeclaration ==
    (state_pc = "constructed" /\ to_string_res # None) =>
        /\ IsPrefix(ExpectedDecl, Val(to_string_res))
        /\ self_transitions = <<>> => Val(to_string_res) = ExpectedDecl
        /\ (self_transitions = <<>> /\ ~IsSet(self_entry) /\ ~IsSet(self_do)
              /\ ~IsSet(self_exit)) =>
                Val(to_string_res) = <<"s", "t", "a", "t", "e", " ">> \o state_class.name

C11_Witness ==
    /\ state_class = IdleState
    /\ self_entry = Some(A_on_enter)
    /\ self_do = Some(A_run)
    /\ self_exit = Some(A_cleanup)
    /\ self_transitions = <<>>
    /\ to_string_res = Some(<<"s", "t", "a", "t", "e", " ", "I", "d", "l", "e", " ", "{", "\n", " ", " ", "e", "n", "t", "r", "y", " ", "/", " ", "o", "n", "_", "e", "n", "t", "e", "r", "(", ")", "\n", " ", " ", "d", "o", " ", "/", " ", "r", "u", "n", "(", ")", "\n", " ", " ", "e", "x", "i", "t", " ", "/", " ", "c", "l", "e", "a", "n", "u", "p", "\n", "}">>)

\* a transition's clauses, those of empty fields left out
Clauses(t) ==
    (IF "next_state" \in DOMAIN t THEN << <<"-", "-", ">", " ">> \o t.next_state >> ELSE <<>>)
    \o (IF "event" \in DOMAIN t THEN << <<":", " ">> \o t.event >> ELSE <<>>)
    \o (IF "condition" \in DOMAIN t THEN << <<"[">> \o t.condition \o <<"]">> >> ELSE <<>>)
    \o (IF "action" \in DOMAIN t THEN << <<"/", " ">> \o t.action >> ELSE <<>>)
\* '<state> --> <target> : <event> [<condition>] / <action>'
ExpectedLine(t) == JoinWith(<<state_class.name>> \o Clauses(t), <<" ">>)
\* a line may end in one blank unless its last clause is the action
Pad(t, n) == IF n = 1 /\ "action" \notin DOMAIN t THEN <<" ">> ELSE <<>>
RECURSIVE ExpectedLines(_, _)
ExpectedLines(ts, pads) ==
    IF ts = <<>> THEN <<>>
    ELSE ExpectedLine(Head(ts)) \o Pad(Head(ts), Head(pads)) \o <<"\n">>
         \o ExpectedLines(Tail(ts), Tail(pads))

\* C12: to_string of a state with transitions is the declaration, a blank
\* line, then one newline-terminated line per transition in the order added,
\* of the form '<state> --> <target> : <event> [<condition>] / <action>' with
\* the clauses of empty fields omitted (the line may end in a blank when it
\* has no action clause); AskName with {name_provided, AskAge} renders a line
\* containing 'AskName --> AskAge : name_provided'; a transition with all
\* four fields on Idle renders exactly 'Idle --> Running : start [ready] / log'.
C12_TransitionLines ==
    (state_pc = "constructed" /\ to_string_res # None /\ self_transitions # <<>>) =>
        /\ \E pads \in [1..Len(self_transitions) -> {0, 1}] :
              Val(to_string_res) =
                  ExpectedDecl \o <<"\n", "\n">> \o ExpectedLines(self_transitions, pads)
        /\ (state_class.name = N_AskName
              /\ \E k \in 1..Len(self_transitions) :
                    self_transitions[k] =
                        [event |-> E_name_provided, next_state |-> N_AskAge]) =>
                Contains(Val(to_string_res), <<"A", "s", "k", "N", "a", "m", "e", " ", "-", "-", ">", " ", "A", "s", "k", "A", "g", "e", " ", ":", " ", "n", "a", "m", "e", "_", "p", "r", "o", "v", "i", "d", "e", "d">>)
        /\ (state_class.name = N_Idle /\ ~IsSet(self_entry) /\ ~IsSet(self_do)
              /\ ~IsSet(self_exit)
              /\ self_transitions =
                    <<[event |-> E_start, condition |-> G_ready, action |-> A_log,
                       next_state |-> N_Running]>>) =>
                Val(to_string_res) =
                    <<"s", "t", "a", "t", "e", " ", "I", "d", "l", "e", "\n", "\n", "I", "d", "l", "e", " ", "-", "-", ">", " ", "R", "u", "n", "n", "i", "n", "g", " ", ":", " ", "s", "t", "a", "r", "t", " ", "[", "r", "e", "a", "d", "y", "]", " ", "/", " ", "l", "o", "g", "\n">>

C12_Witness ==
    /\ state_class = IdleState
    /\ Len(self_transitions) = 2
    /\ self_transitions[1] = [event |-> E_start, condition |-> G_ready,
                              action |-> A_log, next_state |-> N_Running]
    /\ self_transitions[2] = [condition |-> G_ready, next_state |-> N_Running]
    /\ self_entry = None /\ self_do = None /\ self_exit = None
    /\ to_string_res = Some(<<"s", "t", "a", "t", "e", " ", "I", "d", "l", "e", "\n", "\n", "I", "d", "l", "e", " ", "-", "-", ">", " ", "R", "u", "n", "n", "i", "n", "g", " ", ":", " ", "s", "t", "a", "r", "t", " ", "[", "r", "e", "a", "d", "y", "]", " ", "/", " ", "l", "o", "g", "\n", "I", "d", "l", "e", " ", "-", "-", ">", " ", "R", "u", "n", "n", "i", "n", "g", " ", "[", "r", "e", "a", "d", "y", "]", " ", "\n">>)

\* C13: a state type declaring class-level defaults, constructed with no
\* arguments, carries them: to_string renders the default actions in the
\* braced block and a line per default transition, and the FSM system
\* message contains '[*] --> AskName', 'AskName --> AskAge : name_provided'
\* and 'End --> [*]'.
C13_ClassDefaultsCarried ==
    (state_pc = "constructed" /\ self_transitions = <<>>) =>
        /\ (state_class = WorkingState /\ to_string_res # None) =>
              Val(to_string_res) = <<"s", "t", "a", "t", "e", " ", "W", "o", "r", "k", "i", "n", "g", " ", "{", "\n", " ", " ", "e", "n", "t", "r", "y", " ", "/", " ", "o", "n", "_", "e", "n", "t", "e", "r", "(", ")", "\n", " ", " ", "d", "o", " ", "/", " ", "r", "u", "n", "(", ")", "\n", " ", " ", "e", "x", "i", "t", " ", "/", " ", "c", "l", "e", "a", "n", "u", "p", "\n", "}">>
        /\ (state_class = AskNameState /\ to_string_res # None) =>
              Contains(Val(to_string_res), <<"A", "s", "k", "N", "a", "m", "e", " ", "-", "-", ">", " ", "A", "s", "k", "A", "g", "e", " ", ":", " ", "n", "a", "m", "e", "_", "p", "r", "o", "v", "i", "d", "e", "d">>)
        /\ (state_class = AskNameState /\ system_message # None) =>
              /\ Contains(Val(system_message), <<"[", "*", "]", " ", "-", "-", ">", " ", "A", "s", "k", "N", "a", "m", "e">>)
              /\ Contains(Val(system_message), <<"A", "s", "k", "N", "a", "m", "e", " ", "-", "-", ">", " ", "A", "s", "k", "A", "g", "e", " ", ":", " ", "n", "a", "m", "e", "_", "p", "r", "o", "v", "i", "d", "e", "d">>)
              /\ Contains(Val(system_message), <<"E", "n", "d", " ", "-", "-", ">", " ", "[", "*", "]">>)

---------------------------------------------------------------------------
(* Properties of the decoders, checked under SpecDecode.                   *)

\* a decode call has ended
Decoded_ == result.status \notin {"idle", "pending"}
\* a section the reply leaves out, or writes with nothing but white space
IsBlank(body) == IsNone(body) \/ \A k \in 1..Len(Val(body)) : Val(body)[k] \in Space
\* the kind the reply asks for: its kind section, else the work mode's default
AskedKind(r, work_mode) ==
    IF IsBlank(r.kind)
    THEN (IF work_mode = "CHAT" THEN S_message ELSE S_final_answer)
    ELSE StrLower(StrStrip(Val(r.kind)))

\* C3: a reply of kind final_answer whose message and data sections are both
\* empty or absent makes PromptEngine's decode raise RetryToFix; with a
\* non-empty message section instead, decode returns a final_answer message
\* whose content is that section's trimmed body.
C3_FinalAnswerNeedsMessageOrData ==
    (engine = "PromptEngine" /\ Decoded_
        /\ AskedKind(reply, agent_work_mode) = S_final_answer
        /\ IsBlank(reply.data)) =>
            IF IsBlank(reply.message)
            THEN result = RaiseRetryToFix
            ELSE /\ result.status = "message"
                 /\ result.message.kind = S_final_answer
                 /\ result.message.content = Some(StrStrip(Val(reply.message)))

\* C4: a message any of the three engines returns with kind final_answer
\* carries non-empty content or non-empty data.
C4_FinalAnswerCarriesContentOrData ==
    (result.status = "message" /\ result.message.kind = S_final_answer) =>
        (StrTruthy(result.message.content) \/ PyTruthy(result.message.data))

\* the ToolCall of a returned message
TheToolCall == Val(result.message.tool_calls)[1]

\* C5: in a message PromptEngine returns, a data, tool_name or tool_arguments
\* section that is absent or has an empty body gives data None, no ToolCall,
\* ToolCall arguments None; data and arguments are never empty values and a
\* ToolCall's name is never the empty string.
C5_AbsentSectionsAreNone ==
    (engine = "PromptEngine" /\ result.status = "message") =>
        /\ IsBlank(reply.data) => result.message.data = None
        /\ IsBlank(reply.tool_name) => result.message.tool_calls = None
        /\ (IsBlank(ArgsBody(reply.tool_arguments))
              /\ result.message.tool_calls # None) =>
                  TheToolCall.arguments = None
        /\ result.message.data # None => Val(result.message.data).items > 0
        /\ result.message.tool_calls # None =>
              /\ TheToolCall.name # <<>>
              /\ TheToolCall.arguments # None =>
                    DOMAIN Val(TheToolCall.arguments) # {}

C5_Witness ==
    /\ engine = "PromptEngine"
    /\ result.status = "message"
    /\ reply.end
    /\ reply.kind = Some(S_message)
    /\ reply.data = Some(<<>>)
    /\ reply.tool_name = Some(<<>>)
    /\ reply.tool_arguments = A_empty
    /\ result.message.content = Some(T_hello)
    /\ result.message.data = None
    /\ result.message.tool_calls = None

\* the mapping a tool_arguments section spells out: each header's field name,
\* as written, to the field's trimmed body
WrittenArguments(a) ==
    LET fs == Val(a).fields
    IN [n \in {fs[k].name : k \in 1..Len(fs)} |->
            StrStrip(fs[CHOOSE k \in 1..Len(fs) : fs[k].name = n].value)]

\* C6: a tool-call reply (a tool_name section and a tool_arguments section
\* made of "~" headers; closed by the end header, as the examples are)
\* decodes to one ToolCall with the declared name whose arguments are exactly
\* the mapping from each header's field name, as written, to its trimmed body.
C6_ToolArgumentsAsWritten ==
    (engine = "PromptEngine" /\ Decoded_ /\ reply.end
        /\ AskedKind(reply, agent_work_mode) = S_tool_call
        /\ ~IsBlank(reply.tool_name)
        /\ ~IsNone(reply.tool_arguments)
        /\ Val(reply.tool_arguments).fields # <<>>
        /\ reply.data # Some(Y_malformed)) =>
            /\ result.status = "message"
            /\ result.message.tool_calls =
                Some(<<ToolCall(StrStrip(Val(reply.tool_name)), "function",
                                Some(WrittenArguments(reply.tool_arguments)))>>)

\* the text after the last separator character (the whole text without one)
FinalSegment(text) ==
    LET ks == {k \in 1..Len(text) : text[k] = "+"}
    IN IF ks = {} THEN text
       ELSE LET last == CHOOSE k \in ks : \A h \in ks : k >= h
            IN [j \in 1..(Len(text) - last) |-> text[last + j]]

T_HelloEnd == T_hello \o <<"+", "+", "+">> \o T_End

\* C7: FSMPromptEngine's decode returns kind final_answer exactly when the
\* trimmed final segment of the reply is the end state's name, and kind
\* message otherwise; 'Hello+++End' gives content 'Hello', kind final_answer
\* with the end state End and kind message with the end state Other.
C7_FinalAnswerIffEndState ==
    (engine = "FSMPromptEngine" /\ Decoded_) =>
        /\ result.status = "message"
        /\ result.message.kind =
              IF StrStrip(FinalSegment(text_response)) = end_state_name
              THEN S_final_answer ELSE S_message
        /\ text_response = T_HelloEnd =>
              /\ result.message.content = Some(T_hello)
              /\ end_state_name = T_End => result.message.kind = S_final_answer
              /\ end_state_name = T_Other => result.message.kind = S_message

C7_Witness ==
    /\ engine = "FSMPromptEngine"
    /\ end_state_name = T_End
    /\ text_response = T_HelloEnd
    /\ result.status = "message"
    /\ result.message.kind = S_final_answer
    /\ result.message.content = Some(T_hello)

\* the text before the separator run that precedes the final segment
BeforeFinalRun(text) ==
    LET ks == {k \in 1..Len(text) : text[k] = "+"}
        last == CHOOSE k \in ks : \A h \in ks : k >= h
        run == CHOOSE b \in 1..last :
                  /\ \A j \in b..last : text[j] = "+"
                  /\ (b = 1 \/ text[b - 1] # "+")
    IN [j \in 1..(run - 1) |-> text[j]]

\* C15: FSMPromptEngine's decode returns as content all of the text that
\* precedes the final (state-name) segment and its separator run, trimmed,
\* also when that text itself contains '+' characters.
C15_ContentIsAllBeforeFinalSegment ==
    (engine = "FSMPromptEngine" /\ Decoded_
        /\ \E k \in 1..Len(text_response) : text_response[k] = "+") =>
            /\ result.status = "message"
            /\ result.message.content = Some(StrStrip(BeforeFinalRun(text_response)))

\* the arguments a tool_arguments section decodes to: its fields by their
\* lower-cased names, or None when it has no field
DecodedArguments(a) ==
    IF IsNone(a) \/ Val(a).fields = <<>> THEN None
    ELSE LET fs == Val(a).fields
         IN Some([n \in {StrLower(fs[k].name) : k \in 1..Len(fs)} |->
                StrStrip(fs[CHOOSE k \in 1..Len(fs) : StrLower(fs[k].name) = n].value)])

\* C16: a message PromptEngine returns carries exactly one ToolCall (name =
\* trimmed tool_name body, type 'function', arguments = decoded
\* tool_arguments) if and only if the reply has a non-empty tool_name
\* section, whatever the kind; a reply of kind tool_call without a tool_name
\* section is returned without error and without a ToolCall.
C16_ToolCallIffToolName ==
    /\ (engine = "PromptEngine" /\ result.status = "message") =>
          result.message.tool_calls =
              IF IsBlank(reply.tool_name) THEN None
              ELSE Some(<<ToolCall(StrStrip(Val(reply.tool_name)), "function",
                                  DecodedArguments(reply.tool_arguments))>>)
    /\ (engine = "PromptEngine" /\ Decoded_
          /\ AskedKind(reply, agent_work_mode) = S_tool_call
          /\ IsNone(reply.tool_name)
          /\ reply.data # Some(Y_malformed)) =>
              /\ result.status = "message"
              /\ result.message.tool_calls = None

\* the three kinds
Kinds == {S_message, S_tool_call, S_final_answer}

\* C17: the kind of a message PromptEngine returns is one of message,
\* tool_call, final_answer; a kind section holding another word does not
\* produce a message of that kind.
C17_KindIsClosed ==
    (engine = "PromptEngine" /\ result.status = "message") =>
        result.message.kind \in Kinds

\* the kind the work mode gives a reply that names none
DefaultKind == IF agent_work_mode = "CHAT" THEN S_message ELSE S_final_answer

\* C18: without a kind section PromptEngine resolves the kind to message in
\* CHAT mode and to final_answer otherwise; so a reply with neither a kind
\* section nor a non-empty message or data section raises RetryToFix in TASK
\* mode and is returned as a message in CHAT mode; SimplePromptEngine gives
\* its verbatim-content message the kind by the same rule.
C18_DefaultKindByWorkMode ==
    /\ (engine = "PromptEngine" /\ Decoded_ /\ IsNone(reply.kind)) =>
          /\ result.status = "message" => result.message.kind = DefaultKind
          /\ (IsBlank(reply.message) /\ IsBlank(reply.data)) =>
                IF agent_work_mode = "CHAT"
                THEN result.status = "message" /\ result.message.kind = S_message
                ELSE result = RaiseRetryToFix
          /\ (agent_work_mode # "CHAT" /\ reply.end /\ ~IsBlank(reply.message)
                /\ reply.data # Some(Y_malformed)) =>
                result.status = "message" /\ result.message.kind = S_final_answer
    /\ (engine = "SimplePromptEngine" /\ Decoded_) =>
          /\ result.status = "message"
          /\ result.message.kind = DefaultKind
          /\ result.message.content = Some(text_response)

C18_Witness ==
    /\ engine = "PromptEngine"
    /\ agent_work_mode = "TASK"
    /\ result = RaiseRetryToFix
    /\ IsNone(reply.kind)
    /\ reply.message = Some(<<" ">>)
    /\ IsNone(reply.data)
    /\ reply.end

\* C20: a section still open when the reply text ends is finalized like any
\* other; a reply that ends with a non-empty message section and no 'end'
\* header decodes to a message with that section's trimmed body as content.
C20_OpenSectionIsFinalized ==
    (engine = "PromptEngine" /\ Decoded_ /\ ~reply.end
        /\ ~IsBlank(reply.message)
        /\ IsNone(reply.data) /\ IsNone(reply.tool_name)
        /\ IsNone(reply.tool_arguments)) =>
            /\ result.status = "message"
            /\ result.message.content = Some(StrStrip(Val(reply.message)))

---------------------------------------------------------------------------
(* Properties of LLMClient.complete, checked under Spec.                   *)

LastAttempt(c) == attempts[c][Len(attempts[c])]
\* every transport attempt of c's call so far was rate-limited
AllRateLimited(c) ==
    /\ attempts[c] # <<>>
    /\ \A j \in 1..Len(attempts[c]) : attempts[c][j].outcome = "RateLimitError"
\* the last transport attempt of c's call succeeded
Succeeded(c) == attempts[c] # <<>> /\ LastAttempt(c).outcome = "ok"

\* C1: a call whose transport attempts are all rate-limited issues them one
\* after the other, goes on while fewer than N (the number of credentials)
\* were made, and after the N-th raises that attempt's rate-limit error,
\* returning no message.
C1_ExhaustionAfterNAttempts ==
    \A c \in Callers :
        /\ \A j \in 1..(Len(attempts[c]) - 1) : attempts[c][j].outcome # "pending"
        /\ AllRateLimited(c) =>
              IF Len(attempts[c]) < nkeys
              THEN pc[c] = "attempt"
              ELSE /\ Len(attempts[c]) = nkeys
                   /\ pc[c] = "raised"
                   /\ ret[c] = Raised(Exc("RateLimitError", nkeys))
                   /\ Val(last_error[c]) = ret[c].exc

C1_Witness ==
    \E c \in Callers :
        /\ nkeys = MaxKeys
        /\ AllRateLimited(c)
        /\ Len(attempts[c]) = nkeys
        /\ pc[c] = "raised"

\* C2: when the k-th attempt of a call succeeds after k-1 rate-limited ones,
\* the call made exactly k attempts, the j-th with the credential j-1
\* positions after the cursor at call entry (cyclically), the cursor rests on
\* the k-th attempt's credential, and the next call starts on that credential.
C2_SuccessAtKthCredential ==
    /\ (prev.ok /\ \A d \in Callers : pc[d] = "idle") => cursor = Val(prev.api_key)
    /\ \A c \in Callers :
        /\ Succeeded(c) =>
              /\ pc[c] \in {"post", "returned", "raised"}
              /\ Len(attempts[c]) <= nkeys
              /\ \A j \in 1..(Len(attempts[c]) - 1) :
                     attempts[c][j].outcome = "RateLimitError"
              /\ \A j \in 1..Len(attempts[c]) :
                     attempts[c][j].api_key = (entry_cursor[c] + j - 1) % nkeys
              /\ cursor = LastAttempt(c).api_key
        /\ (prev.ok /\ attempts[c] # <<>>) =>
              attempts[c][1].api_key = Val(prev.api_key)

C2_Witness ==
    \E c \in Callers :
        /\ pc[c] = "returned"
        /\ Succeeded(c)
        /\ Len(attempts[c]) = MaxKeys
        /\ prev.ok
        /\ Val(prev.api_key) # 0

\* the temperature C8 expects: the call's, else the gateway's, else 0
C8_ExpectedTemperature(c) ==
    LET call == DictGet(completion_kwargs[c], "temperature")
        gateway == IF IsNone(self_completion_kwargs) THEN None
                   ELSE DictGet(Val(self_completion_kwargs), "temperature")
    IN IF ~IsNone(call) THEN call
       ELSE IF ~IsNone(gateway) THEN gateway
       ELSE Some(0)

\* C8: every transport attempt is sent the per-call temperature if one is
\* given, otherwise the gateway-configured one if any, otherwise 0.
C8_TemperaturePrecedence ==
    \A c \in Callers :
        \A j \in 1..Len(attempts[c]) :
            attempts[c][j].temperature = C8_ExpectedTemperature(c)

\* the reasoning-closing marker occurs in s at position k
MarkerAt(s, k) ==
    /\ k + Len(THINK_CLOSE) - 1 <= Len(s)
    /\ \A j \in 1..Len(THINK_CLOSE) : s[k + j - 1] = THINK_CLOSE[j]
HasMarker(s) == \E k \in 1..Len(s) : MarkerAt(s, k)
\* the text strictly after the first occurrence of the marker
AfterMarker(s) ==
    LET k == CHOOSE k \in 1..Len(s) :
                 MarkerAt(s, k) /\ \A h \in 1..(k - 1) : ~MarkerAt(s, h)
    IN [j \in 1..(Len(s) - k - Len(THINK_CLOSE) + 1) |->
            s[k + Len(THINK_CLOSE) - 1 + j]]

\* C9: the returned message's content is the text strictly after the marker
\* when the model's content holds it, and the model's content otherwise
\* (empty and absent content included).
C9_ContentAfterThinkMarker ==
    \A c \in Callers :
        pc[c] = "returned" =>
            LET m == resp[c].content
            IN /\ ret[c].kind = "return"
               /\ ret[c].content =
                     IF ~IsNone(m) /\ HasMarker(Val(m))
                     THEN Some(AfterMarker(Val(m)))
                     ELSE m

C9_Witness ==
    \E c \in Callers :
        /\ pc[c] = "returned"
        /\ resp[c].content = Some(<<"a">> \o THINK_CLOSE \o <<"a">>)
        /\ ret[c].content = Some(<<"a">>)

\* C14: when a transport attempt fails with an error other than the
\* rate-limit condition, the call ends at once: that attempt is the call's
\* last, the cursor stays on the credential the attempt used, and the call
\* raises that same error.
C14_OtherErrorAbortsAtOnce ==
    \A c \in Callers :
        \A k \in 1..Len(attempts[c]) :
            attempts[c][k].outcome = "OtherError" =>
                /\ k = Len(attempts[c])
                /\ pc[c] = "raised"
                /\ ret[c] = Raised(Exc("OtherError", k))
                /\ cursor = attempts[c][k].api_key
                /\ \A j \in 1..(k - 1) : attempts[c][j].outcome = "RateLimitError"

C14_Witness ==
    /\ nkeys = 3
    /\ pc["c1"] = "raised"
    /\ Len(attempts["c1"]) = 2
    /\ attempts["c1"][1].outcome = "RateLimitError"
    /\ attempts["c1"][2].outcome = "OtherError"
    /\ attempts["c1"][2].api_key = 1
    /\ cursor = 1
    /\ ret["c1"] = Raised(Exc("OtherError", 2))

\* C19: within one complete() call every transport attempt, the first and
\* each retry after a rate-limit failure, is issued with the temperature and
\* the expected-output schema of the first attempt.
C19_RetriesRepeatTheRequest ==
    \A c \in Callers :
        \A k \in 1..Len(attempts[c]) :
            /\ attempts[c][k].temperature = attempts[c][1].temperature
            /\ attempts[c][k].response_format = attempts[c][1].response_format

\* the credentials of a call's attempts are pairwise different
EachCredentialAtMostOnce(c) ==
    \A j, k \in 1..Len(attempts[c]) :
        j # k => attempts[c][j].api_key # attempts[c][k].api_key

\* C21: the cursor is not synchronized.  A call during which no other call
\* on the same gateway was running (the calls are serialized, or the caller
\* owns the gateway) tries each credential at most once; when two calls
\* interleave at the transport call, one call's rotation changes the
\* credential the other uses next, so that a call can issue two attempts
\* with the same credential and exhaust its N attempts without having tried
\* every credential (the state C21_Witness).
C21_SerializedTriesEachCredentialOnce ==
    \A c \in Callers :
        ~overlap[c] =>
            /\ EachCredentialAtMostOnce(c)
            /\ Len(attempts[c]) <= nkeys

C21_Witness ==
    /\ nkeys = 2
    /\ overlap["c1"]
    /\ pc["c1"] = "raised"
    /\ ret["c1"].exc.type = "RateLimitError"
    /\ Len(attempts["c1"]) = 2
    /\ attempts["c1"][1].api_key = 0
    /\ attempts["c1"][2].api_key = 0
    /\ \A k \in 1..2 : attempts["c1"][k].outcome = "RateLimitError"

\* C10: an exception that propagates out of complete() was passed to
\* log_error first.
C10_RaisedImpliesLogged ==
    \A c \in Callers :
        pc[c] = "raised" => \E j \in 1..Len(log[c]) : log[c][j] = "error"
===========================================================================
